---- MODULE Spec2Model ----
(***************************************************************************)
(* Model of the Petra wallet adapter plugin: the error table (errors.ts)   *)
(* and the PetraWallet facade (index.ts).  Every async facade method is a  *)
(* frame on `stack`; a frame runs from one await to the next in one step.  *)
(* The injected provider (the browser extension) is the environment: it    *)
(* settles each pending call with a value or a rejection.                  *)
(***************************************************************************)
EXTENDS Integers, Sequences, FiniteSets, TLC

VARIABLES
    windowPetra,   \* the global window.petra: "undefined" or a provider id
    provider,      \* PetraWallet.provider
    providerAtConstruction, \* history: the value `provider` was constructed with
    errorTable,    \* the PetraApiErrors catalogue
    op,            \* the facade call the host made last (name and arguments)
    stack,         \* async frames of the facade call in flight, outermost first
    ret,           \* completion of the frame that finished last
    calls,         \* provider invocations made during the current facade call
    warnings,      \* console.warn lines emitted during the current facade call
    accountCb,     \* the account-change handler the provider holds
    networkCb,     \* the network-change handler the provider holds
    fired,         \* the account event the provider fired last at its handler
    delivered      \* what the host's callback received of that event

vars == <<windowPetra, provider, providerAtConstruction,
          errorTable, op, stack, ret, calls, warnings,
          accountCb, networkCb, fired, delivered>>

(***************************************************************************)
(* Records.  TLC keeps the fields of a record sorted by the order in which *)
(* their names first occur in the module; every record below is written in *)
(* that order, which this record fixes.                                    *)
(***************************************************************************)
FieldOrder ==
    [ t |-> 1, s |-> 2, n |-> 3, b |-> 4, items |-> 5, id |-> 6,
      obj |-> 7, bytes |-> 8, address |-> 9, publicKey |-> 10,
      isError |-> 11, class |-> 12, hasCode |-> 13, code |-> 14,
      status |-> 15, message |-> 16, reading |-> 17, kind |-> 18,
      val |-> 19, target |-> 20, method |-> 21, args |-> 22,
      outcome |-> 23, form |-> 24, name |-> 25, fn |-> 26, pc |-> 27,
      input |-> 28, payload |-> 29, rawTxn |-> 30, callback |-> 31,
      event |-> 32, data |-> 33, functionArguments |-> 34, sender |-> 35,
      text |-> 36, options |-> 37, chainId |-> 38, url |-> 39,
      version |-> 40, hash |-> 41, signature |-> 42,
      accountAuthenticator |-> 43, rawTransaction |-> 44,
      secondarySignerAddresses |-> 45, feePayerAddress |-> 46,
      raw_txn |-> 47, secondary_signer_addresses |-> 48,
      fee_payer_address |-> 49 ]

(***************************************************************************)
(* Bounds                                                                  *)
(***************************************************************************)
MaxSecondary == 2

(***************************************************************************)
(* JavaScript values                                                       *)
(***************************************************************************)
Undefined == [t |-> "undefined"]
JsString(s) == [t |-> "string", s |-> s]
JsNumber(n) == [t |-> "number", n |-> n]
NumericString(n) == [t |-> "numstr", n |-> n]
JsBoolean(b) == [t |-> "boolean", b |-> b]
JsArray(items) == [t |-> "array", items |-> items]
JsFunction(id) == [t |-> "function", id |-> id]

\* JavaScript truthiness of the values the model uses
Truthy(v) ==
    CASE v.t = "undefined" -> FALSE
      [] v.t = "number"    -> v.n # 0
      [] v.t = "string"    -> v.s # ""
      [] v.t = "boolean"   -> v.b
      [] OTHER             -> TRUE

\* Number(x) on the values an option can hold
Number(v) == IF v.t = "numstr" THEN JsNumber(v.n) ELSE v

(***************************************************************************)
(* errors.ts                                                               *)
(***************************************************************************)
PetraApiError(code, status, message) ==
    [t |-> "error",
     isError |-> TRUE,
     class |-> "PetraApiError",
     hasCode |-> TRUE,
     code |-> code,
     status |-> status,
     message |-> message]

\* Object.values(PetraApiErrors), in property order
PetraApiErrors ==
    << PetraApiError(-30001, "Internal Error", "Internal Error"),
       PetraApiError(4000, "No Accounts", "No accounts found"),
       PetraApiError(4002, "Time Out", "The prompt timed out without a response. This could be because the user did not respond or because a new request was opened."),
       PetraApiError(4100, "Unauthorized", "The requested method and/or account has not been authorized by the user."),
       PetraApiError(4200, "Unsupported", "The provider does not support the requested method."),
       PetraApiError(4001, "Rejected", "The user rejected the request") >>

INTERNAL_ERROR == errorTable[1]

\* Array.prototype.find: the first entry whose code matches, or "no index" 0
FindIndex(code) ==
    IF \E i \in 1..Len(errorTable) : errorTable[i].code = code
    THEN CHOOSE i \in 1..Len(errorTable) :
            /\ errorTable[i].code = code
            /\ \A j \in 1..(i - 1) : errorTable[j].code # code
    ELSE 0

FindIndexAtLeast(code) ==
    IF \E i \in 1..Len(errorTable) : errorTable[i].code >= code
    THEN CHOOSE i \in 1..Len(errorTable) :
            /\ errorTable[i].code >= code
            /\ \A j \in 1..(i - 1) : ~(errorTable[j].code >= code)
    ELSE 0

codeToErrorLoose(code) ==
    IF FindIndexAtLeast(code) = 0 THEN INTERNAL_ERROR ELSE errorTable[FindIndexAtLeast(code)]

codeToError(code) ==
    IF FindIndex(code) = 0 THEN INTERNAL_ERROR ELSE errorTable[FindIndex(code)]

(***************************************************************************)
(* index.ts: helpers                                                       *)
(***************************************************************************)
MapMessage == "Cannot read properties of undefined (reading 'map')"

JsObject(obj) == [t |-> "object", obj |-> obj]
EmptyObject == JsObject([k \in {} |-> Undefined])
HasKey(o, k) == o.t = "object" /\ k \in DOMAIN o.obj
\* o?.k
Get(o, k) == IF HasKey(o, k) THEN o.obj[k] ELSE Undefined
\* { ...base, ...o }: the properties of o override those of base
Spread(base, o) == IF o.t = "object" THEN o.obj @@ base ELSE base

isObjectPropsUnsupportedErrorLoose(err) ==
    err.t = "error" /\ err.isError

isObjectPropsUnsupportedErrorOtherMessage(err) ==
    err.t = "error" /\ err.isError
    /\ err.message = "Cannot read properties of undefined (reading 'payload')"

isObjectPropsUnsupportedError(err) ==
    err.t = "error" /\ err.isError /\ err.message = MapMessage

areOptionsEmpty(options) ==
    \/ options = Undefined
    \/ DOMAIN options.obj = {}
    \/ \A k \in DOMAIN options.obj : options.obj[k] = Undefined

\* the value remapPetraError throws
remapPetraErrorIdentity(error) == error

remapPetraError(error) ==
    IF error.t = "error" /\ error.hasCode
    THEN codeToError(error.code)
    ELSE error

remapTransactionOptions(options) ==
    JsObject(Spread(
        "maxGasAmount" :> (IF Truthy(Get(options, "max_gas_amount"))
                           THEN Number(Get(options, "max_gas_amount"))
                           ELSE Undefined)
        @@ "gasUnitPrice" :> (IF Truthy(Get(options, "gas_unit_price"))
                              THEN Number(Get(options, "gas_unit_price"))
                              ELSE Undefined),
        options))

\* the TypeError of calling a method on an undefined provider reference
UndefinedReceiverError(method) ==
    [t |-> "error",
     isError |-> TRUE,
     class |-> "TypeError",
     hasCode |-> FALSE,
     code |-> 0,
     status |-> "",
     message |-> "Cannot read properties of undefined",
     reading |-> method]

(***************************************************************************)
(* The provider (the extension): values it resolves and rejects with       *)
(***************************************************************************)
Providers == {"petraA", "petraB"}
Addresses == {1, 2}

ProviderError(isError, hasCode, code, message) ==
    [t |-> "error",
     isError |-> isError,
     class |-> IF isError THEN "Error" ELSE "Object",
     hasCode |-> hasCode,
     code |-> code,
     status |-> "",
     message |-> message]

UnsupportedError == ProviderError(TRUE, FALSE, 0, MapMessage)

Rejections ==
    { ProviderError(FALSE, TRUE, c, "provider error") : c \in {4001, 4200, 9999} }
    \cup { ProviderError(TRUE, TRUE, 4000, MapMessage),
           UnsupportedError,
           ProviderError(TRUE, FALSE, 0, "request failed"),
           ProviderError(FALSE, FALSE, 0, MapMessage) }

AccountInfo(a, withKey) ==
    [t |-> "AccountInfo", address |-> [t |-> "hex", bytes |-> a],
     publicKey |-> IF withKey THEN [t |-> "hex", bytes |-> a + 100] ELSE Undefined]
AccountInfos == { AccountInfo(a, k) : a \in Addresses, k \in BOOLEAN }

Pending == [kind |-> "pending"]
Resolved(v) == [kind |-> "resolved", val |-> v]
Rejected(e) == [kind |-> "rejected", val |-> e]

NoArgs == [form |-> "none"]

LastCall == calls[Len(calls)]
Settled == calls # <<>> /\ LastCall.outcome.kind # "pending"

(***************************************************************************)
(* Async frames                                                            *)
(***************************************************************************)
NoRet == [kind |-> "none"]
Idle == stack = <<>>
Top == stack[Len(stack)]
At(fn, pc) == stack # <<>> /\ Top.fn = fn /\ Top.pc = pc
Pop == SubSeq(stack, 1, Len(stack) - 1)
Goto(pc) == [stack EXCEPT ![Len(stack)].pc = pc]

\* the running frame returns v / throws e to whoever awaits it
Return(v) == stack' = Pop /\ ret' = [kind |-> "return", val |-> v]
Throw(e) == stack' = Pop /\ ret' = [kind |-> "throw", val |-> e]

\* call provider method `method` on reference `ref` and park the frame at pc;
\* a call on an undefined reference throws synchronously
InvokeOr(ref, method, args, pc, onUndefined) ==
    IF ref = "undefined"
    THEN /\ onUndefined
         /\ UNCHANGED calls
    ELSE /\ calls' = Append(calls, [target |-> ref,
                                    method |-> method,
                                    args |-> args,
                                    outcome |-> Pending])
         /\ stack' = Goto(pc)
         /\ UNCHANGED ret

Invoke(ref, method, args, pc) ==
    InvokeOr(ref, method, args, pc, Throw(UndefinedReceiverError(method)))

Env == <<windowPetra, provider, providerAtConstruction, errorTable>>
Events == <<accountCb, networkCb, fired, delivered>>

\* the host is not waiting for a facade call and holds no result of one
Quiescent == Idle /\ op.name = "none"

\* the host calls a facade method
HostCall(call, frame) ==
    /\ Quiescent
    /\ op' = call
    /\ stack' = <<frame>>
    /\ ret' = NoRet
    /\ calls' = <<>>
    /\ warnings' = <<>>
    /\ UNCHANGED <<Env, Events>>

\* the host takes the outcome of the facade call it awaited
HostReceive ==
    /\ Idle /\ op.name # "none"
    /\ op' = [name |-> "none"]
    /\ ret' = NoRet
    /\ calls' = <<>>
    /\ warnings' = <<>>
    /\ UNCHANGED <<Env, Events, stack>>

(***************************************************************************)
(* connect, account, disconnect                                            *)
(***************************************************************************)
CallConnect ==
    HostCall([name |-> "connect"], [fn |-> "connect", pc |-> "start"])

connect_start ==
    /\ At("connect", "start")
    /\ Invoke(provider, "connect", NoArgs, "await")
    /\ UNCHANGED <<Env, Events, op, warnings>>

connect_resume ==
    /\ At("connect", "await") /\ Settled
    /\ IF LastCall.outcome.kind = "rejected"
       THEN Throw(remapPetraError(LastCall.outcome.val))
       ELSE IF ~Truthy(LastCall.outcome.val)
            THEN Throw(JsString("Petra Address Info Error"))
            ELSE Return(LastCall.outcome.val)
    /\ UNCHANGED <<Env, Events, op, calls, warnings>>

CallAccount ==
    HostCall([name |-> "account"], [fn |-> "account", pc |-> "start"])

account_start ==
    /\ At("account", "start")
    /\ Invoke(provider, "account", NoArgs, "await")
    /\ UNCHANGED <<Env, Events, op, warnings>>

account_resume ==
    /\ At("account", "await") /\ Settled
    /\ IF LastCall.outcome.kind = "rejected"
       THEN Throw(remapPetraError(LastCall.outcome.val))
       ELSE IF ~Truthy(LastCall.outcome.val)
            THEN Throw(JsString("Petra Account Error"))
            ELSE Return(LastCall.outcome.val)
    /\ UNCHANGED <<Env, Events, op, calls, warnings>>

CallDisconnect ==
    HostCall([name |-> "disconnect"], [fn |-> "disconnect", pc |-> "start"])

disconnect_start ==
    /\ At("disconnect", "start")
    /\ Invoke(provider, "disconnect", NoArgs, "await")
    /\ UNCHANGED <<Env, Events, op, warnings>>

disconnect_resume ==
    /\ At("disconnect", "await") /\ Settled
    /\ IF LastCall.outcome.kind = "rejected"
       THEN Throw(remapPetraError(LastCall.outcome.val))
       ELSE Return(LastCall.outcome.val)
    /\ UNCHANGED <<Env, Events, op, calls, warnings>>

(***************************************************************************)
(* ./conversion and the SDK types it converts between                      *)
(***************************************************************************)
AccountAddressV2(a) == [t |-> "AccountAddressV2", bytes |-> a]
AccountAddressV1(a) == [t |-> "AccountAddressV1", bytes |-> a]

\* AccountAddress.from(sender).toString()
AddressToString(address) == [t |-> "hex", bytes |-> address.bytes]
\* TxnBuilderTypes.AccountAddress.fromHex(hex)
fromHex(hex) == AccountAddressV1(hex.bytes)

\* reinterpretation of a v2 value as its v1 counterpart: same bytes
convertV2toV1(value) ==
    CASE value.t = "AccountAddressV2" -> [t |-> "AccountAddressV1", bytes |-> value.bytes]
      [] value.t = "RawTransactionV2" -> [t |-> "RawTransactionV1", bytes |-> value.bytes]

convertV1toV2(value) ==
    CASE value.t = "AccountAuthenticatorV1" -> [t |-> "AccountAuthenticatorV2", bytes |-> value.bytes]

generateV1TransactionPayload(data, network) ==
    [t |-> "TxnBuilderPayload", fn |-> data.fn]

convertV2JsonPayloadToV1(data) ==
    [t |-> "PayloadV1", fn |-> data.fn]

\* areBCSArguments(functionArguments), from the adapter core
areBCSArguments(functionArguments) == functionArguments = "bcs"

(***************************************************************************)
(* Inputs of the submission methods                                        *)
(***************************************************************************)
OptionsV1 ==
    { Undefined,
      EmptyObject,
      JsObject("max_gas_amount" :> Undefined),
      JsObject("max_gas_amount" :> Undefined @@ "gas_unit_price" :> Undefined),
      JsObject("max_gas_amount" :> NumericString(7)),
      JsObject("max_gas_amount" :> JsNumber(0)),
      JsObject("gas_unit_price" :> JsNumber(5)),
      JsObject("max_gas_amount" :> NumericString(7) @@ "maxGasAmount" :> JsNumber(3)) }

OptionsV2 ==
    { Undefined,
      EmptyObject,
      JsObject("expireTimestamp" :> Undefined),
      JsObject("expireTimestamp" :> JsNumber(9)),
      JsObject("maxGasAmount" :> JsNumber(3)) }

PayloadsV1 == { [t |-> "PayloadV1", fn |-> 1] }
PayloadsBCS == { [t |-> "TxnBuilderPayload", fn |-> 1] }

InputTransactionData ==
    { [t |-> "InputTransactionData",
       data |-> [fn |-> 1, functionArguments |-> k],
       sender |-> s,
       options |-> o] :
         k \in {"bcs", "json"}, s \in {Undefined, AccountAddressV2(1)}, o \in OptionsV2 }

\* arguments of provider.signAndSubmitTransaction: the payload itself and an
\* optional second argument, or one object wrapping payload and options
BareArgs(payload, options) == [form |-> "bare", payload |-> payload, options |-> options]
WrappedArgs(payload, options) == [form |-> "wrapped", payload |-> payload, options |-> options]
CarriesOptions(args) == args.form \in {"bare", "wrapped"} /\ args.options # Undefined

(***************************************************************************)
(* network                                                                 *)
(***************************************************************************)
NetworkResponses ==
    { [t |-> "NetworkResponse", name |-> "testnet", chainId |-> 2,
       url |-> "https://testnet", version |-> "1.2.27"] }

CallNetwork ==
    HostCall([name |-> "network"], [fn |-> "network", pc |-> "start"])

networkReference == windowPetra

network_start ==
    /\ At("network", "start")
    /\ Invoke(networkReference, "getNetwork", NoArgs, "await")
    /\ UNCHANGED <<Env, Events, op, warnings>>

network_resume ==
    /\ At("network", "await") /\ Settled
    /\ IF LastCall.outcome.kind = "rejected"
       THEN Throw(remapPetraError(LastCall.outcome.val))
       ELSE IF LastCall.outcome.val = Undefined
            THEN Throw(UndefinedReceiverError("name"))
            ELSE Return([t |-> "NetworkInfo",
                         name |-> LastCall.outcome.val.name,
                         chainId |-> LastCall.outcome.val.chainId,
                         url |-> LastCall.outcome.val.url])
    /\ UNCHANGED <<Env, Events, op, calls, warnings>>

(***************************************************************************)
(* signAndSubmitTransaction                                                *)
(***************************************************************************)
CallSignAndSubmitTransaction ==
    \E input \in InputTransactionData \cup PayloadsV1, optionsV1 \in OptionsV1 :
        /\ input.t = "InputTransactionData" => optionsV1 = Undefined
        /\ HostCall([name |-> "signAndSubmitTransaction",
                     input |-> input,
                     options |-> optionsV1],
                    [fn |-> "signAndSubmitTransaction",
                     pc |-> "start",
                     input |-> input,
                     options |-> optionsV1])

\* lines 99-105: the options handed on for a v2 input
GenerateTxnOptions(generateTxnInput) ==
    JsObject(Spread(
        "expirationTimestamp" :> Get(generateTxnInput.options, "expireTimestamp")
        @@ "sender" :> (IF Truthy(generateTxnInput.sender)
                        THEN AddressToString(generateTxnInput.sender)
                        ELSE Undefined),
        generateTxnInput.options))

\* await this.f(...): park the running frame at pc and start the callee
Await(pc, frame) ==
    /\ stack' = Append(Goto(pc), frame)
    /\ ret' = NoRet

signAndSubmitTransaction_start ==
    /\ At("signAndSubmitTransaction", "start")
    /\ IF Top.input.t = "InputTransactionData"
       THEN /\ IF areBCSArguments(Top.input.data.functionArguments)
               THEN Await("await_network", [fn |-> "network", pc |-> "start"])
               ELSE Await("await_inner",
                          [fn |-> "signAndSubmitTransaction",
                           pc |-> "start",
                           input |-> convertV2JsonPayloadToV1(Top.input.data),
                           options |-> GenerateTxnOptions(Top.input)])
            /\ UNCHANGED calls
       ELSE Invoke(provider, "signAndSubmitTransaction",
                   BareArgs(Top.input,
                            IF Truthy(Top.options)
                            THEN remapTransactionOptions(Top.options)
                            ELSE Undefined),
                   "await_provider")
    /\ UNCHANGED <<Env, Events, op, warnings>>

\* the typed payload handed to the v1 path instead
signAndSubmitTransaction_networkViaV1 ==
    /\ At("signAndSubmitTransaction", "await_network") /\ ret.kind # "none"
    /\ IF ret.kind = "throw"
       THEN Throw(ret.val)
       ELSE Await("await_inner",
                  [fn |-> "signAndSubmitTransaction",
                   pc |-> "start",
                   input |-> generateV1TransactionPayload(Top.input.data, ret.val),
                   options |-> GenerateTxnOptions(Top.input)])
    /\ UNCHANGED <<Env, Events, op, calls, warnings>>

signAndSubmitTransaction_network ==
    /\ At("signAndSubmitTransaction", "await_network") /\ ret.kind # "none"
    /\ IF ret.kind = "throw"
       THEN Throw(ret.val)
       ELSE Await("await_inner",
                  [fn |-> "signAndSubmitBCSTransaction",
                   pc |-> "start",
                   payload |-> generateV1TransactionPayload(Top.input.data, ret.val),
                   options |-> GenerateTxnOptions(Top.input)])
    /\ UNCHANGED <<Env, Events, op, calls, warnings>>

signAndSubmitTransaction_inner ==
    /\ At("signAndSubmitTransaction", "await_inner") /\ ret.kind # "none"
    /\ IF ret.kind = "throw" THEN Throw(ret.val) ELSE Return(ret.val)
    /\ UNCHANGED <<Env, Events, op, calls, warnings>>

signAndSubmitTransaction_resume ==
    /\ At("signAndSubmitTransaction", "await_provider") /\ Settled
    /\ IF LastCall.outcome.kind = "rejected"
       THEN Throw(remapPetraError(LastCall.outcome.val))
       ELSE Return(LastCall.outcome.val)
    /\ UNCHANGED <<Env, Events, op, calls, warnings>>

(***************************************************************************)
(* signAndSubmitBCSTransaction                                             *)
(***************************************************************************)
CallSignAndSubmitBCSTransaction ==
    \E payload \in PayloadsBCS, options \in OptionsV1 :
        HostCall([name |-> "signAndSubmitBCSTransaction",
                  input |-> payload,
                  options |-> options],
                 [fn |-> "signAndSubmitBCSTransaction",
                  pc |-> "start",
                  payload |-> payload,
                  options |-> options])

OptionsWarning(options) ==
    [text |-> "Options are not supported by your current version of Petra and they will be ignored. Please update to Petra >= 1.2.27.\nIgnored options: ",
     options |-> options]

signAndSubmitBCSTransaction_start ==
    /\ At("signAndSubmitBCSTransaction", "start")
    /\ IF ~areOptionsEmpty(Top.options)
       THEN Invoke(provider, "signAndSubmitTransaction",
                   WrappedArgs(Top.payload, remapTransactionOptions(Top.options)),
                   "await_first")
       ELSE Invoke(provider, "signAndSubmitTransaction",
                   BareArgs(Top.payload, Undefined), "await_second")
    /\ UNCHANGED <<Env, Events, op, warnings>>

\* lines 138-151: the first call settled; the catch block, and the call after it
signAndSubmitBCSTransaction_first ==
    /\ At("signAndSubmitBCSTransaction", "await_first") /\ Settled
    /\ IF LastCall.outcome.kind = "resolved"
       THEN /\ Return(LastCall.outcome.val)
            /\ UNCHANGED <<calls, warnings>>
       ELSE IF ~isObjectPropsUnsupportedError(remapPetraError(LastCall.outcome.val))
            THEN /\ Throw(remapPetraError(LastCall.outcome.val))
                 /\ UNCHANGED <<calls, warnings>>
            ELSE /\ warnings' = Append(warnings, OptionsWarning(Top.options))
                 /\ Invoke(provider, "signAndSubmitTransaction",
                           BareArgs(Top.payload, Undefined), "await_second")
    /\ UNCHANGED <<Env, Events, op>>

signAndSubmitBCSTransaction_second ==
    /\ At("signAndSubmitBCSTransaction", "await_second") /\ Settled
    /\ IF LastCall.outcome.kind = "rejected"
       THEN Throw(remapPetraError(LastCall.outcome.val))
       ELSE Return(LastCall.outcome.val)
    /\ UNCHANGED <<Env, Events, op, calls, warnings>>

(***************************************************************************)
(* signMessage                                                             *)
(***************************************************************************)
Messages ==
    { JsString("hello"),
      JsObject("message" :> JsString("hello")),
      JsObject("message" :> JsString("hello") @@ "nonce" :> JsString("")),
      JsObject("message" :> JsString("hello") @@ "nonce" :> JsString("n1")) }

CallSignMessage ==
    \E message \in Messages :
        HostCall([name |-> "signMessage", input |-> message],
                 [fn |-> "signMessage", pc |-> "start", input |-> message])

signMessage_start ==
    /\ At("signMessage", "start")
    /\ IF Top.input.t # "object" \/ ~Truthy(Get(Top.input, "nonce"))
       THEN /\ Throw(JsString("Petra Invalid signMessage Payload"))
            /\ UNCHANGED calls
       ELSE Invoke(provider, "signMessage", [form |-> "message", payload |-> Top.input],
                   "await")
    /\ UNCHANGED <<Env, Events, op, warnings>>

signMessage_resume ==
    /\ At("signMessage", "await") /\ Settled
    /\ IF LastCall.outcome.kind = "rejected"
       THEN Throw(remapPetraError(LastCall.outcome.val))
       ELSE Return(LastCall.outcome.val)
    /\ UNCHANGED <<Env, Events, op, calls, warnings>>

(***************************************************************************)
(* signTransaction                                                         *)
(***************************************************************************)
SecondaryLists ==
    UNION { [1..n -> { AccountAddressV2(a) : a \in Addresses }] : n \in 0..MaxSecondary }

AnyRawTransactions ==
    { [t |-> "AnyRawTransaction",
       rawTransaction |-> [t |-> "RawTransactionV2", bytes |-> 7],
       secondarySignerAddresses |-> s,
       feePayerAddress |-> f] :
         s \in {Undefined} \cup { JsArray(l) : l \in SecondaryLists },
         f \in {Undefined} \cup { AccountAddressV2(a) : a \in Addresses } }

CallSignTransaction ==
    \/ \E transaction \in AnyRawTransactions,
          asFeePayer \in {Undefined, JsBoolean(FALSE), JsBoolean(TRUE)} :
        HostCall([name |-> "signTransaction",
                  input |-> transaction,
                  options |-> asFeePayer],
                 [fn |-> "signTransaction",
                  pc |-> "start",
                  input |-> transaction,
                  options |-> asFeePayer])
    \/ \E payload \in PayloadsV1 \cup PayloadsBCS, options \in OptionsV1 :
        HostCall([name |-> "signTransaction",
                  input |-> payload,
                  options |-> options],
                 [fn |-> "signTransaction",
                  pc |-> "start",
                  input |-> payload,
                  options |-> options])

FeePayerRawTransaction(rawTxn, secondary, feePayer) ==
    [t |-> "FeePayerRawTransaction", raw_txn |-> rawTxn,
     secondary_signer_addresses |-> secondary, fee_payer_address |-> feePayer]

MultiAgentRawTransaction(rawTxn, secondary) ==
    [t |-> "MultiAgentRawTransaction", raw_txn |-> rawTxn,
     secondary_signer_addresses |-> secondary]

\* line 170
RawTxnV1(transaction) == convertV2toV1(transaction.rawTransaction)

\* lines 172-174: secondarySignerAddresses?.map(convertV2toV1)
SecondarySignersAddressesV1(transaction) ==
    IF transaction.secondarySignerAddresses = Undefined
    THEN Undefined
    ELSE JsArray([i \in DOMAIN transaction.secondarySignerAddresses.items |->
                    convertV2toV1(transaction.secondarySignerAddresses.items[i])])

\* x ?? []
OrEmptyList(x) == IF x = Undefined THEN <<>> ELSE x.items

ActiveFeePayerFromInput(transaction, activeAccount) ==
    IF Truthy(transaction.feePayerAddress)
    THEN convertV2toV1(transaction.feePayerAddress)
    ELSE fromHex(activeAccount.address)

\* line 183
ActiveFeePayer(transaction, activeAccount) ==
    fromHex(activeAccount.address)

\* lines 182-188: the asFeePayer branch, once account() has returned
RawTxnAsFeePayer(transaction, activeAccount) ==
    FeePayerRawTransaction(RawTxnV1(transaction),
                           OrEmptyList(SecondarySignersAddressesV1(transaction)),
                           ActiveFeePayer(transaction, activeAccount))

RawTxnMultiAgentFirst(transaction) ==
    IF Truthy(SecondarySignersAddressesV1(transaction))
    THEN MultiAgentRawTransaction(RawTxnV1(transaction),
                                  SecondarySignersAddressesV1(transaction).items)
    ELSE IF Truthy(transaction.feePayerAddress)
         THEN FeePayerRawTransaction(RawTxnV1(transaction), <<>>,
                                     convertV2toV1(transaction.feePayerAddress))
         ELSE RawTxnV1(transaction)

RawTxnNonEmptyMultiAgent(transaction) ==
    IF Truthy(transaction.feePayerAddress)
    THEN FeePayerRawTransaction(RawTxnV1(transaction),
                                OrEmptyList(SecondarySignersAddressesV1(transaction)),
                                convertV2toV1(transaction.feePayerAddress))
    ELSE IF OrEmptyList(SecondarySignersAddressesV1(transaction)) # <<>>
         THEN MultiAgentRawTransaction(RawTxnV1(transaction),
                                       SecondarySignersAddressesV1(transaction).items)
         ELSE RawTxnV1(transaction)

\* lines 189-203: the branches taken when asFeePayer is not set
RawTxnNotAsFeePayer(transaction) ==
    IF Truthy(transaction.feePayerAddress)
    THEN FeePayerRawTransaction(RawTxnV1(transaction),
                                OrEmptyList(SecondarySignersAddressesV1(transaction)),
                                convertV2toV1(transaction.feePayerAddress))
    ELSE IF Truthy(SecondarySignersAddressesV1(transaction))
         THEN MultiAgentRawTransaction(RawTxnV1(transaction),
                                       SecondarySignersAddressesV1(transaction).items)
         ELSE RawTxnV1(transaction)

RawTxnArgs(rawTxn) == [form |-> "rawTxn", rawTxn |-> rawTxn]

UnsupportedSigningError ==
    [t |-> "error",
     isError |-> TRUE,
     class |-> "Error",
     hasCode |-> FALSE,
     code |-> 0,
     status |-> "",
     message |-> "Signing an arbitrary raw transaction is not supported by your current version of Petra. Please update to Petra >= 1.2.27."]

DestructureError ==
    [t |-> "error",
     isError |-> TRUE,
     class |-> "TypeError",
     hasCode |-> FALSE,
     code |-> 0,
     status |-> "",
     message |-> "Cannot destructure property 'accountAuthenticator' as it is undefined."]

\* invoking signTransaction on an undefined provider throws inside the try block
\* of lines 205-216, whose catch rethrows it
signTransaction_start ==
    /\ At("signTransaction", "start")
    /\ IF Top.input.t = "AnyRawTransaction"
       THEN IF Truthy(Top.options)
            THEN /\ Await("await_account", [fn |-> "account", pc |-> "start"])
                 /\ UNCHANGED calls
            ELSE Invoke(provider, "signTransaction",
                        RawTxnArgs(RawTxnNotAsFeePayer(Top.input)), "await_v2")
       ELSE Invoke(provider, "signTransaction",
                   BareArgs(Top.input,
                            IF Truthy(Top.options)
                            THEN remapTransactionOptions(Top.options)
                            ELSE Undefined),
                   "await_v1")
    /\ UNCHANGED <<Env, Events, op, warnings>>

signTransaction_account ==
    /\ At("signTransaction", "await_account") /\ ret.kind # "none"
    /\ IF ret.kind = "throw"
       THEN /\ Throw(ret.val)
            /\ UNCHANGED calls
       ELSE Invoke(provider, "signTransaction",
                   RawTxnArgs(RawTxnAsFeePayer(Top.input, ret.val)), "await_v2")
    /\ UNCHANGED <<Env, Events, op, warnings>>

signTransaction_v2 ==
    /\ At("signTransaction", "await_v2") /\ Settled
    /\ IF LastCall.outcome.kind = "rejected"
       THEN IF isObjectPropsUnsupportedError(remapPetraError(LastCall.outcome.val))
            THEN Throw(UnsupportedSigningError)
            ELSE Throw(remapPetraError(LastCall.outcome.val))
       ELSE IF LastCall.outcome.val = Undefined
            THEN Throw(DestructureError)
            ELSE Return(convertV1toV2(LastCall.outcome.val.accountAuthenticator))
    /\ UNCHANGED <<Env, Events, op, calls, warnings>>

signTransaction_v1 ==
    /\ At("signTransaction", "await_v1") /\ Settled
    /\ IF LastCall.outcome.kind = "rejected"
       THEN Throw(remapPetraError(LastCall.outcome.val))
       ELSE Return(LastCall.outcome.val)
    /\ UNCHANGED <<Env, Events, op, calls, warnings>>

(***************************************************************************)
(* onNetworkChange, onAccountChange: no await, so each runs in one step    *)
(***************************************************************************)
Callbacks == { Undefined, JsFunction("hostCallback") }

\* a facade method that runs to completion without suspending
HostCallSync(call, made, value) ==
    /\ Quiescent
    /\ op' = call
    /\ stack' = <<>>
    /\ ret' = [kind |-> "return", val |-> value]
    /\ calls' = made
    /\ warnings' = <<>>

RegistrationCall(method, handler) ==
    IF provider = "undefined"
    THEN <<>>
    ELSE << [target |-> provider,
             method |-> method,
             args |-> [form |-> "callback", callback |-> handler],
             outcome |-> Resolved(Undefined)] >>

NetworkChangeHandler(callback) == callback

onNetworkChange ==
    \E callback \in Callbacks :
        /\ HostCallSync([name |-> "onNetworkChange", input |-> callback],
                        RegistrationCall("onNetworkChange", NetworkChangeHandler(callback)),
                        Undefined)
        /\ networkCb' = IF provider = "undefined" THEN networkCb
                        ELSE NetworkChangeHandler(callback)
        /\ UNCHANGED <<Env, accountCb, fired, delivered>>

AccountChangeHandlerNone(callback) == Undefined

\* line 232: what the provider is handed as its account-change handler
AccountChangeHandler(callback) == callback

onAccountChange ==
    \E callback \in Callbacks :
        /\ HostCallSync([name |-> "onAccountChange", input |-> callback],
                        RegistrationCall("onAccountChange", AccountChangeHandler(callback)),
                        Undefined)
        /\ accountCb' = IF provider = "undefined" THEN accountCb
                        ELSE AccountChangeHandler(callback)
        /\ UNCHANGED <<Env, networkCb, fired, delivered>>

(***************************************************************************)
(* codeToError called directly (it is exported)                            *)
(***************************************************************************)
LookupCodes == { PetraApiErrors[i].code : i \in 1..Len(PetraApiErrors) }
               \cup {9999, 0, 4003, -1}

CallCodeToError ==
    \E code \in LookupCodes :
        /\ HostCallSync([name |-> "codeToError", input |-> code], <<>>, codeToError(code))
        /\ UNCHANGED <<Env, Events>>

(***************************************************************************)
(* The environment: the extension                                          *)
(***************************************************************************)
SubmitResponses == { [t |-> "PendingTransaction", hash |-> 1] }
SignMessageResponses == { [t |-> "SignMessageResponse", signature |-> 3] }
SignTransactionResponsesV2 ==
    { [t |-> "SignTransactionResponse",
       accountAuthenticator |-> [t |-> "AccountAuthenticatorV1", bytes |-> 5]],
      Undefined }
SignTransactionResponsesV1 == { [t |-> "Uint8Array", bytes |-> 6] }

Resolutions(call) ==
    CASE call.method \in {"connect", "account"} -> AccountInfos \cup {Undefined}
      [] call.method = "disconnect" -> {Undefined}
      [] call.method = "signAndSubmitTransaction" -> SubmitResponses
      [] call.method = "signMessage" -> SignMessageResponses
      [] call.method = "signTransaction" ->
            IF call.args.form = "rawTxn" THEN SignTransactionResponsesV2
            ELSE SignTransactionResponsesV1
      [] call.method = "getNetwork" -> NetworkResponses \cup {Undefined}

\* the extension settles the pending call
ProviderSettle ==
    /\ calls # <<>> /\ LastCall.outcome = Pending
    /\ \E outcome \in { Resolved(v) : v \in Resolutions(LastCall) }
                      \cup { Rejected(e) : e \in Rejections } :
          calls' = [calls EXCEPT ![Len(calls)].outcome = outcome]
    /\ UNCHANGED <<Env, Events, op, stack, ret, warnings>>

\* the extension (re)defines the global window.petra after the wallet object
\* was constructed
ExtensionInject ==
    /\ \E p \in Providers \ {windowPetra} : windowPetra' = p
    /\ UNCHANGED <<provider, providerAtConstruction, errorTable, Events,
                   op, stack, ret, calls, warnings>>

AccountEvents == { AccountInfo(1, TRUE), AccountInfo(1, FALSE) }

\* what calling the handler the provider holds delivers to the host's callback
HandlerDeliveries(handler, event) ==
    IF handler.t = "function"
    THEN << [callback |-> handler.id, event |-> event] >>
    ELSE <<>>

\* the user switches account in the extension, which calls its handler
ProviderAccountEvent ==
    /\ accountCb # Undefined
    /\ \E event \in AccountEvents :
          /\ fired' = <<event>>
          /\ delivered' = HandlerDeliveries(accountCb, event)
    /\ UNCHANGED <<Env, accountCb, networkCb, op, stack, ret, calls, warnings>>

(***************************************************************************)
(* Specification                                                           *)
(***************************************************************************)
Init ==
    /\ windowPetra \in {"undefined", "petraA"}
    /\ provider = windowPetra
    /\ providerAtConstruction = provider
    /\ errorTable = PetraApiErrors
    /\ op = [name |-> "none"]
    /\ stack = <<>>
    /\ ret = NoRet
    /\ calls = <<>>
    /\ warnings = <<>>
    /\ accountCb = Undefined
    /\ networkCb = Undefined
    /\ fired = <<>>
    /\ delivered = <<>>

Next ==
    \/ CallConnect \/ connect_start \/ connect_resume
    \/ CallAccount \/ account_start \/ account_resume
    \/ CallDisconnect \/ disconnect_start \/ disconnect_resume
    \/ CallNetwork \/ network_start \/ network_resume
    \/ CallSignAndSubmitTransaction \/ signAndSubmitTransaction_start
    \/ signAndSubmitTransaction_network \/ signAndSubmitTransaction_inner
    \/ signAndSubmitTransaction_resume
    \/ CallSignAndSubmitBCSTransaction \/ signAndSubmitBCSTransaction_start
    \/ signAndSubmitBCSTransaction_first \/ signAndSubmitBCSTransaction_second
    \/ CallSignMessage \/ signMessage_start \/ signMessage_resume
    \/ CallSignTransaction \/ signTransaction_start \/ signTransaction_account
    \/ signTransaction_v2 \/ signTransaction_v1
    \/ onNetworkChange \/ onAccountChange
    \/ CallCodeToError
    \/ HostReceive
    \/ ProviderSettle \/ ExtensionInject \/ ProviderAccountEvent

Spec == Init /\ [][Next]_vars

(***************************************************************************)
(* Vocabulary of the properties                                            *)
(***************************************************************************)
\* the facade call has completed and the host holds its outcome
Done == Idle /\ op.name # "none"

CallsOf(method) == { i \in 1..Len(calls) : calls[i].method = method }
RejectedAt(i) == calls[i].outcome.kind = "rejected"
ResolvedAt(i) == calls[i].outcome.kind = "resolved"

\* the table entry for a code, read off errors.ts lines 14-37
TableEntry(code) ==
    CASE code = -30001 -> [code |-> -30001, status |-> "Internal Error"]
      [] code = 4000   -> [code |-> 4000, status |-> "No Accounts"]
      [] code = 4002   -> [code |-> 4002, status |-> "Time Out"]
      [] code = 4100   -> [code |-> 4100, status |-> "Unauthorized"]
      [] code = 4200   -> [code |-> 4200, status |-> "Unsupported"]
      [] code = 4001   -> [code |-> 4001, status |-> "Rejected"]
      [] OTHER         -> [code |-> -30001, status |-> "Internal Error"]

IsTableEntry(v, code) ==
    /\ v.t = "error" /\ v.class = "PetraApiError"
    /\ v.code = TableEntry(code).code
    /\ v.status = TableEntry(code).status
    /\ \E i \in 1..Len(PetraApiErrors) : v = PetraApiErrors[i]

\* the rejection old extensions produce for an argument shape they do not know
IsOptionsUnsupported(v) ==
    v.t = "error" /\ v.isError /\ ~v.hasCode /\ v.message = MapMessage

\* an options value with at least one defined property
NonEmptyOptions(o) ==
    o # Undefined /\ \E k \in DOMAIN o.obj : o.obj[k] # Undefined

\* a later call to signAndSubmitTransaction follows call i: its rejection
\* was absorbed by the options-compatibility retry
Absorbed(i) ==
    /\ calls[i].method = "signAndSubmitTransaction"
    /\ \E j \in (i + 1)..Len(calls) : calls[j].method = "signAndSubmitTransaction"

ReceivesMapped(i) ==
    /\ ret.kind = "throw"
    /\ IF calls[i].outcome.val.hasCode
       THEN IsTableEntry(ret.val, calls[i].outcome.val.code)
       ELSE ret.val = calls[i].outcome.val

ReplacedBySignTransaction(i) ==
    /\ op.name = "signTransaction"
    /\ calls[i].method = "signTransaction"
    /\ calls[i].args.form = "rawTxn"
    /\ IsOptionsUnsupported(calls[i].outcome.val)

RetriedBare(i, payload) ==
    /\ Len(calls) = i + 1
    /\ calls[i + 1].target = calls[i].target
    /\ calls[i + 1].method = "signAndSubmitTransaction"
    /\ calls[i + 1].args = BareArgs(payload, Undefined)
    /\ Len(warnings) = 1
    /\ ResolvedAt(i + 1) => ret = [kind |-> "return", val |-> calls[i + 1].outcome.val]
    /\ RejectedAt(i + 1) => ret.kind = "throw"

\* C2, as stated: signAndSubmitBCSTransaction with non-empty options, whose
\* options-carrying call the provider rejects, retries once with the bare
\* payload, returns the retry's result and logs a warning.
C2_AsStated ==
    (Done /\ op.name = "signAndSubmitBCSTransaction" /\ NonEmptyOptions(op.options)
          /\ calls # <<>> /\ CarriesOptions(calls[1].args) /\ RejectedAt(1))
    => RetriedBare(1, op.input)

\* C2, amended: the retry happens when the provider rejects the
\* options-carrying call with the options-unsupported error, an Error with no
\* code field whose message is exactly "Cannot read properties of undefined
\* (reading 'map')"; then the bare payload is sent once more, its result is
\* returned, the first rejection is not surfaced and one warning is logged.
C2_RetryOnUnsupported ==
    (Done /\ op.name = "signAndSubmitBCSTransaction" /\ NonEmptyOptions(op.options)
          /\ calls # <<>> /\ CarriesOptions(calls[1].args) /\ RejectedAt(1)
          /\ IsOptionsUnsupported(calls[1].outcome.val))
    => RetriedBare(1, op.input)

C2_Witness ==
    /\ Done /\ op.name = "signAndSubmitBCSTransaction" /\ NonEmptyOptions(op.options)
    /\ Len(calls) = 2
    /\ calls[1].args.form = "wrapped" /\ IsOptionsUnsupported(calls[1].outcome.val)
    /\ calls[2].args = BareArgs(op.input, Undefined)
    /\ ret = [kind |-> "return", val |-> calls[2].outcome.val]
    /\ Len(warnings) = 1

(***************************************************************************)
(* C3                                                                      *)
(***************************************************************************)
SubmitCalls == CallsOf("signAndSubmitTransaction")
FirstSubmit == CHOOSE i \in SubmitCalls : \A j \in SubmitCalls : i <= j

IsV2Input == op.input.t = "InputTransactionData"
IsTypedMode == IsV2Input /\ op.input.data.functionArguments = "bcs"

\* the host passed options that are not empty
CalledWithOptions ==
    IF IsV2Input
    THEN Truthy(op.input.sender) \/ NonEmptyOptions(op.input.options)
    ELSE NonEmptyOptions(op.options)

\* the provider rejected the options-carrying submission as unsupported
FirstSubmitUnsupported ==
    /\ SubmitCalls # {}
    /\ CarriesOptions(calls[FirstSubmit].args)
    /\ RejectedAt(FirstSubmit)
    /\ IsOptionsUnsupported(calls[FirstSubmit].outcome.val)

\* C3, as stated: in each input mode of signAndSubmitTransaction, a call with
\* non-empty options whose options-carrying submission the provider rejects
\* as unsupported is retried without options, and the retry's result returned
\* with a warning.
C3_AsStated ==
    (Done /\ op.name = "signAndSubmitTransaction" /\ CalledWithOptions
          /\ FirstSubmitUnsupported)
    => RetriedBare(FirstSubmit, calls[FirstSubmit].args.payload)

\* C3, amended: only the v2 mode with typed BCS arguments, which goes through
\* signAndSubmitBCSTransaction, retries without options and returns the
\* retry's result with a warning.  In the v2 mode with JSON arguments and in
\* the v1 mode the provider is invoked at most once, with the payload and the
\* remapped options; its rejection reaches the caller through the error
\* mapping, with no retry and no warning.
C3_RetryOnlyInTypedMode ==
    (Done /\ op.name = "signAndSubmitTransaction") =>
        IF IsTypedMode
        THEN (CalledWithOptions /\ FirstSubmitUnsupported)
             => RetriedBare(FirstSubmit, calls[FirstSubmit].args.payload)
        ELSE /\ Cardinality(SubmitCalls) <= 1
             /\ warnings = <<>>
             /\ \A i \in SubmitCalls :
                   /\ calls[i].args.form = "bare"
                   /\ RejectedAt(i) => ReceivesMapped(i)

C3_Witness ==
    /\ Done /\ op.name = "signAndSubmitTransaction" /\ IsTypedMode
    /\ CalledWithOptions /\ FirstSubmitUnsupported
    /\ Len(calls) = 3
    /\ calls[3].args.options = Undefined
    /\ ret = [kind |-> "return", val |-> calls[3].outcome.val]
    /\ Len(warnings) = 1

(***************************************************************************)
(* C4                                                                      *)
(***************************************************************************)
\* C4, as stated: an account event without a public key makes the facade call
\* connect() on the provider and hand the callback the fetched account; the
\* key-less event itself never reaches the callback.
C4_AsStated ==
    \A i \in 1..Len(delivered) : delivered[i].event.publicKey # Undefined

\* C4, amended: onAccountChange hands the caller's callback itself to the
\* provider.  Every event the provider fires, key-less ones included, reaches
\* that callback unchanged, and the facade calls connect() on the provider
\* only when the host calls connect().
C4_CallbackForwardedAsIs ==
    /\ Len(delivered) = Len(fired)
    /\ \A i \in 1..Len(delivered) :
          delivered[i] = [callback |-> "hostCallback", event |-> fired[i]]
    /\ CallsOf("connect") # {} => op.name = "connect"
    /\ (op.name = "onAccountChange" /\ provider # "undefined") =>
          /\ accountCb = op.input
          /\ Len(calls) = 1
          /\ calls[1].target = provider
          /\ calls[1].method = "onAccountChange"
          /\ calls[1].args.callback = op.input

C4_Witness ==
    \E i \in 1..Len(delivered) :
        /\ fired[i].publicKey = Undefined
        /\ delivered[i].event = fired[i]
        /\ delivered[i].callback = "hostCallback"

(***************************************************************************)
(* C5                                                                      *)
(***************************************************************************)
SignCalls == CallsOf("signTransaction")
IsRawInput == op.name = "signTransaction" /\ op.input.t = "AnyRawTransaction"
AsFeePayer == op.options = JsBoolean(TRUE)
HasFeePayer == op.input.feePayerAddress # Undefined
SecondaryGiven == op.input.secondarySignerAddresses # Undefined
SecondaryInput == IF SecondaryGiven THEN op.input.secondarySignerAddresses.items ELSE <<>>

\* the v1 addresses carry the bytes of the v2 addresses, position by position
SameAddresses(v1list, v2list) ==
    /\ Len(v1list) = Len(v2list)
    /\ \A k \in 1..Len(v2list) :
          v1list[k].t = "AccountAddressV1" /\ v1list[k].bytes = v2list[k].bytes

ConvertedRawTxn(r) ==
    r.t = "RawTransactionV1" /\ r.bytes = op.input.rawTransaction.bytes

\* C5: signTransaction on a v2 raw transaction, asFeePayer not set, with a
\* fee-payer address and a non-empty secondary-signer list forwards exactly the
\* fee-payer variant: the converted raw transaction, the secondary signers in
\* their order, and that fee-payer address.
C5_FeePayerTakesPrecedence ==
    (IsRawInput /\ ~AsFeePayer /\ HasFeePayer /\ SecondaryInput # <<>>) =>
        /\ Cardinality(SignCalls) <= 1
        /\ (Done /\ provider # "undefined") => Cardinality(SignCalls) = 1
        /\ \A i \in SignCalls :
              /\ calls[i].args.form = "rawTxn"
              /\ calls[i].args.rawTxn.t = "FeePayerRawTransaction"
              /\ ConvertedRawTxn(calls[i].args.rawTxn.raw_txn)
              /\ SameAddresses(calls[i].args.rawTxn.secondary_signer_addresses,
                               SecondaryInput)
              /\ calls[i].args.rawTxn.fee_payer_address.t = "AccountAddressV1"
              /\ calls[i].args.rawTxn.fee_payer_address.bytes
                    = op.input.feePayerAddress.bytes

C5_Witness ==
    /\ IsRawInput /\ ~AsFeePayer /\ HasFeePayer
    /\ Len(SecondaryInput) = 2 /\ SecondaryInput[1] # SecondaryInput[2]
    /\ Done /\ SignCalls # {}
    /\ calls[1].args.rawTxn.t = "FeePayerRawTransaction"
    /\ ret.kind = "return"

(***************************************************************************)
(* C6                                                                      *)
(***************************************************************************)
\* C6: codeToError(code) returns the entry carrying that code for each of the
\* six table codes, and the internal-error entry for any other code; the
\* table is never changed.
C6_LookupExact ==
    /\ errorTable = PetraApiErrors
    /\ (Done /\ op.name = "codeToError") =>
          /\ ret.kind = "return"
          /\ IsTableEntry(ret.val, op.input)
          /\ op.input \in {-30001, 4000, 4001, 4002, 4100, 4200} => ret.val.code = op.input
          /\ op.input \notin {-30001, 4000, 4001, 4002, 4100, 4200} => ret.val.code = -30001
          /\ op.input = 4001 =>
                /\ ret.val.status = "Rejected"
                /\ ret.val.message = "The user rejected the request"
          /\ op.input = 9999 =>
                /\ ret.val.status = "Internal Error"
                /\ ret.val.message = "Internal Error"

C6_Witness ==
    /\ Done /\ op.name = "codeToError" /\ op.input = 9999
    /\ ret.val.code = -30001

(***************************************************************************)
(* C7                                                                      *)
(***************************************************************************)
AccountCalls == CallsOf("account")

\* account() gave the facade an account: the provider call resolved with one
AccountResolvedAt(i) ==
    /\ calls[i].method = "account"
    /\ ResolvedAt(i)
    /\ calls[i].outcome.val # Undefined

\* C7: signTransaction on v2 input with asFeePayer set calls the provider's
\* account() and has its answer before it calls the provider's
\* signTransaction; what it forwards is the fee-payer variant whose fee payer
\* is the address account() returned, whatever feePayerAddress the input
\* carries; if account() rejects or returns nothing, signTransaction is never
\* invoked and the call fails.
C7_FeePayerIsActiveAccount ==
    (IsRawInput /\ AsFeePayer) =>
        /\ Cardinality(SignCalls) <= 1 /\ Cardinality(AccountCalls) <= 1
        /\ \A j \in SignCalls :
              /\ j = 2 /\ AccountResolvedAt(1)
              /\ calls[j].args.form = "rawTxn"
              /\ calls[j].args.rawTxn.t = "FeePayerRawTransaction"
              /\ ConvertedRawTxn(calls[j].args.rawTxn.raw_txn)
              /\ SameAddresses(calls[j].args.rawTxn.secondary_signer_addresses,
                               SecondaryInput)
              /\ calls[j].args.rawTxn.fee_payer_address.t = "AccountAddressV1"
              /\ calls[j].args.rawTxn.fee_payer_address.bytes
                    = calls[1].outcome.val.address.bytes
        /\ (Done /\ provider # "undefined") =>
              /\ AccountCalls = {1}
              /\ AccountResolvedAt(1) => SignCalls = {2}
              /\ ~AccountResolvedAt(1) => (SignCalls = {} /\ ret.kind = "throw")

C7_Witness ==
    /\ IsRawInput /\ AsFeePayer /\ HasFeePayer /\ Done
    /\ SignCalls = {2}
    /\ calls[1].outcome.val.address.bytes # op.input.feePayerAddress.bytes
    /\ calls[2].args.rawTxn.fee_payer_address.bytes = calls[1].outcome.val.address.bytes

(***************************************************************************)
(* C8                                                                      *)
(***************************************************************************)
\* C8: the facade's provider reference always equals the value it was
\* constructed with, and every provider call of every facade operation,
\* network() included, goes to that reference.
C8_AsStated ==
    /\ provider = providerAtConstruction
    /\ \A i \in 1..Len(calls) : calls[i].target = providerAtConstruction

(***************************************************************************)
(* C9                                                                      *)
(***************************************************************************)
Methods == { calls[i].method : i \in 1..Len(calls) }

\* the host passed empty options: undefined, no keys, or only undefined values
CalledWithEmptyOptions ==
    /\ op.name \in {"signAndSubmitTransaction", "signAndSubmitBCSTransaction"}
    /\ IF op.name = "signAndSubmitTransaction" THEN ~CalledWithOptions
       ELSE ~NonEmptyOptions(op.options)

\* the typed mode queries the network first and stops when that fails
NetworkFailed ==
    /\ op.name = "signAndSubmitTransaction" /\ IsTypedMode
    /\ \A i \in CallsOf("getNetwork") : ~ResolvedAt(i) \/ calls[i].outcome.val = Undefined

ReachesBCS ==
    \/ op.name = "signAndSubmitBCSTransaction"
    \/ op.name = "signAndSubmitTransaction" /\ IsTypedMode

\* C9: within one facade call a provider method that rejected is not invoked
\* again, except that signAndSubmitTransaction is invoked a second time, right
\* after its options-carrying call was rejected with the options-unsupported
\* error, and then without options; no method is invoked more than twice; a
\* call with empty options submits exactly once, the payload passed bare.
C9_NoRetryButDowngrade ==
    /\ \A i \in 1..Len(calls) : \A j \in (i + 1)..Len(calls) :
          (calls[i].method = calls[j].method /\ RejectedAt(i)) =>
              /\ calls[i].method = "signAndSubmitTransaction"
              /\ ReachesBCS
              /\ j = i + 1
              /\ calls[i].args.form = "wrapped"
              /\ CarriesOptions(calls[i].args)
              /\ IsOptionsUnsupported(calls[i].outcome.val)
              /\ calls[j].args = BareArgs(calls[i].args.payload, Undefined)
    /\ \A m \in Methods : Cardinality(CallsOf(m)) <= 2
    /\ CalledWithEmptyOptions =>
          /\ Cardinality(SubmitCalls) <= 1
          /\ \A i \in SubmitCalls :
                /\ calls[i].args.form = "bare"
                /\ ReachesBCS => calls[i].args.options = Undefined
          /\ (Done /\ provider # "undefined" /\ ~NetworkFailed) =>
                Cardinality(SubmitCalls) = 1

C9_Witness ==
    /\ Done /\ op.name = "signAndSubmitBCSTransaction"
    /\ Len(calls) = 2
    /\ RejectedAt(1) /\ IsOptionsUnsupported(calls[1].outcome.val)
    /\ RejectedAt(2)
    /\ calls[2].args.options = Undefined

(***************************************************************************)
(* C10                                                                     *)
(***************************************************************************)
\* the variant each combination of inputs selects
ExpectedVariant ==
    IF AsFeePayer \/ HasFeePayer THEN "FeePayerRawTransaction"
    ELSE IF SecondaryGiven THEN "MultiAgentRawTransaction"
    ELSE "RawTransactionV1"

\* C10: signTransaction on v2 input forwards exactly one of the three
\* variants, chosen in the order fee-payer, multi-agent, plain: without
\* asFeePayer and feePayerAddress it is the plain raw transaction only when no
\* secondary-signer list is given, and the multi-agent variant carrying the
\* list whenever one is given, the empty list included.
C10_VariantSelection ==
    IsRawInput =>
        /\ Cardinality(SignCalls) <= 1
        /\ \A i \in SignCalls :
              /\ calls[i].args.form = "rawTxn"
              /\ calls[i].args.rawTxn.t = ExpectedVariant
              /\ ExpectedVariant = "RawTransactionV1" => ConvertedRawTxn(calls[i].args.rawTxn)
              /\ ExpectedVariant # "RawTransactionV1" =>
                    /\ ConvertedRawTxn(calls[i].args.rawTxn.raw_txn)
                    /\ SameAddresses(calls[i].args.rawTxn.secondary_signer_addresses,
                                     SecondaryInput)
        /\ (Done /\ provider # "undefined" /\ ~AsFeePayer) => Cardinality(SignCalls) = 1
        /\ (Done /\ AsFeePayer /\ calls # <<>> /\ AccountResolvedAt(1)) =>
              Cardinality(SignCalls) = 1

C10_Witness ==
    /\ IsRawInput /\ ~AsFeePayer /\ ~HasFeePayer
    /\ SecondaryGiven /\ SecondaryInput = <<>>
    /\ Done /\ SignCalls = {1}
    /\ calls[1].args.rawTxn.t = "MultiAgentRawTransaction"
    /\ calls[1].args.rawTxn.secondary_signer_addresses = <<>>

====
